---- MODULE Spec2Model ----
(***************************************************************************)
(* A model of turmoil (src/src/lib.rs): the run loop `run`, the scoped     *)
(* terminal mode held by BufferWrapper, the background event producer of   *)
(* `events`, and the bounds-checked drawing surface BoundedBuffer.         *)
(*                                                                         *)
(* Two specifications share the variables:                                 *)
(*   Spec         the session: setup, render/select loop, teardown and the *)
(*                producer thread;                                         *)
(*   SurfaceSpec  BoundedBuffer::get_mut / BoundedCell::set_char applied   *)
(*                to buffers drawn from a bounded set.                     *)
(***************************************************************************)
EXTENDS Integers, Sequences, FiniteSets, TLC

VARIABLES
    pc,        \* position of the thread that called run()
    result,    \* the Result<()> run() is going to return: "none" until decided
    raw,       \* terminal: raw mode enabled
    alt,       \* terminal: alternate screen entered
    entered,   \* history: the loop (RUNNING) was entered
    rxAlive,   \* the Receiver<Event> `events` exists and is not dropped
    ppc,       \* position of the producer thread spawned by events()
    held,      \* the event the producer read and is trying to send
    chan,      \* messages buffered inside the channel (capacity ChanCap)
    readLog,   \* history: every event crossterm::event::read() returned
    recvLog,   \* history: every event the loop received from `events`
    wake,      \* history: how the last select! was resolved
    frames,    \* history: number of completed terminal.draw calls (capped)
    comp,      \* which implementor of Component is the root
    cs,        \* the root Component's own state
    calls,     \* Component method calls that have begun and not yet returned
    drawn,     \* history: draw calls begun since the last select! was resolved
    area,      \* surface: the Rect of the tui Buffer under the BoundedBuffer
    cells,     \* surface: the Buffer's content vector, index -> glyph
    before,    \* surface: the content before the last operation
    op,        \* surface: the last operation (set_char or draw) and its outcome
    prevFrame, \* surface: the content the draw before the last one produced
    checked    \* surface: the build keeps debug assertions and overflow checks

loopVars == <<pc, result, raw, alt, entered, rxAlive, ppc, held, chan,
              readLog, recvLog, wake, frames, comp, cs, calls, drawn>>
surfVars == <<area, cells, before, op, prevFrame, checked>>
vars == <<pc, result, raw, alt, entered, rxAlive, ppc, held, chan,
          readLog, recvLog, wake, frames, comp, cs, calls, drawn,
          area, cells, before, op, prevFrame, checked>>

----
\* Bounds of the model.

\* Number of events the environment delivers to crossterm::event::read().
MaxReads == 3
\* The frame counter stops counting here.
MaxFrames == 1
\* Surface: largest origin coordinate and side length of the Rects tried, and
\* the number of set_char calls made on one buffer.
MaxOrigin == 1
MaxSide == 2
MaxOps == 1

----
\* Events (crossterm::event::Event) and the ones the environment produces.

Key(code, mods) == [tag |-> "Key", code |-> code, mods |-> mods]
MouseEv == [tag |-> "Mouse", code |-> "-", mods |-> "NONE"]
ResizeEv == [tag |-> "Resize", code |-> "-", mods |-> "NONE"]
NoEvent == [tag |-> "None", code |-> "-", mods |-> "NONE"]

EnvEvents ==
    { Key("Esc", "NONE"), Key("Esc", "CONTROL"), Key("a", "NONE"),
      Key("Left", "NONE"), MouseEv, ResizeEv }

----
\* The Component trait and its implementors.

Components == {"Default", "App", "FlagA", "Greedy"}

InitState == [flag |-> FALSE, uppercase |-> TRUE, offset |-> <<0, 0>>]

\* i32 `+= 1` and `-= 1` of a release build (two's complement wrap-around).
I32Max == 2147483647
I32Min == -2147483647 - 1
I32Inc(v) == IF v = I32Max THEN I32Min ELSE v + 1
I32Dec(v) == IF v = I32Min THEN I32Max ELSE v - 1

\* App::key_event of the playground example.
AppKeyEvent(s, code) ==
    CASE code = "i" ->
           [handled |-> TRUE, state |-> [s EXCEPT !.uppercase = ~s.uppercase]]
      [] code = "Left" ->
           [handled |-> TRUE,
            state |-> [s EXCEPT !.offset = <<I32Dec(s.offset[1]), s.offset[2]>>]]
      [] code = "Right" ->
           [handled |-> TRUE,
            state |-> [s EXCEPT !.offset = <<I32Inc(s.offset[1]), s.offset[2]>>]]
      [] code = "Up" ->
           [handled |-> TRUE,
            state |-> [s EXCEPT !.offset = <<s.offset[1], I32Dec(s.offset[2])>>]]
      [] code = "Down" ->
           [handled |-> TRUE,
            state |-> [s EXCEPT !.offset = <<s.offset[1], I32Inc(s.offset[2])>>]]
      [] OTHER -> [handled |-> FALSE, state |-> s]

\* Component::key_event of root component c in state s.
\*   Default: the trait's default method (false);
\*   App:     the playground example;
\*   FlagA:   an implementor that consumes Char('a'), setting a flag;
\*   Greedy:  an implementor that consumes every key, Esc included.
KeyEvent(c, s, code, mods) ==
    CASE c = "App" -> AppKeyEvent(s, code)
      [] c = "FlagA" ->
           IF code = "a"
           THEN [handled |-> TRUE, state |-> [s EXCEPT !.flag = TRUE]]
           ELSE [handled |-> FALSE, state |-> s]
      [] c = "Greedy" -> [handled |-> TRUE, state |-> s]
      [] OTHER -> [handled |-> FALSE, state |-> s]

\* Component::mouse_event: only Greedy overrides the default (false).
MouseEvent(c, s) ==
    IF c = "Greedy"
    THEN [handled |-> TRUE, state |-> s]
    ELSE [handled |-> FALSE, state |-> s]

\* A plausible slip: no arm for Resize, every non-mouse event goes to key_event.
HandleComponentEventNoResizeArm(c, s, e) ==
    IF e.tag = "Mouse"
    THEN [call |-> "mouse_event"] @@ MouseEvent(c, s)
    ELSE [call |-> "key_event"] @@ KeyEvent(c, s, e.code, e.mods)

\* handle_component_event: dispatch on the event's tag.
HandleComponentEvent(c, s, e) ==
    CASE e.tag = "Key" ->
           [call |-> "key_event"] @@ KeyEvent(c, s, e.code, e.mods)
      [] e.tag = "Mouse" ->
           [call |-> "mouse_event"] @@ MouseEvent(c, s)
      [] OTHER -> [call |-> "none", handled |-> FALSE, state |-> s]

\* A plausible slip: the global rule also matches on the key's being a key only.
HandleGlobalEventAnyKey(e) == e.tag = "Key"

\* A plausible slip: the global rule never matches.
HandleGlobalEventNever(e) == FALSE

\* handle_global_event: matches!(event, Key(KeyEvent { code: Esc, .. })).
HandleGlobalEvent(e) == e.tag = "Key" /\ e.code = "Esc"

\* A plausible slip: `||`-style evaluation, the global rule applied to every event.
ShouldQuitIgnoringHandled(handled, e) == HandleGlobalEvent(e)

\* The condition of `break 'main Ok(())`:
\* !handle_component_event(..) && handle_global_event(event).
ShouldQuit(handled, e) == ~handled /\ HandleGlobalEvent(e)

----
\* The channel of events(): crossbeam_channel::bounded(0).

ChanCap == 0

\* A plausible slip: bounded(1), a channel with one slot of buffering.
SendCanBufferOneSlot(q) == Len(q) < 1

\* A send completes without a receiver when the queue holds fewer than
\* ChanCap messages.
SendCanBuffer(q) == Len(q) < ChanCap

NoWake == [kind |-> "none", ev |-> NoEvent, call |-> "none", handled |-> FALSE]

----
\* The initial state of a session: run() has been called, nothing acquired.

SurfIdle ==
    /\ area = [x |-> 0, y |-> 0, width |-> 0, height |-> 0]
    /\ cells = <<>>
    /\ before = <<>>
    /\ op = [kind |-> "none", n |-> 0, x |-> 0, y |-> 0, ch |-> " ", outcome |-> "none"]
    /\ prevFrame = <<>>
    /\ checked = FALSE

Init ==
    /\ pc = "enable_raw"
    /\ result = "none"
    /\ raw = FALSE
    /\ alt = FALSE
    /\ entered = FALSE
    /\ rxAlive = FALSE
    /\ ppc = "unspawned"
    /\ held = NoEvent
    /\ chan = <<>>
    /\ readLog = <<>>
    /\ recvLog = <<>>
    /\ wake = NoWake
    /\ frames = 0
    /\ comp \in Components
    /\ cs = InitState
    /\ calls = {}
    /\ drawn = 0
    /\ SurfIdle

----
\* Setup: terminal() and BufferWrapper::new.

\* crossterm::terminal::enable_raw_mode()?  (first statement of BufferWrapper::new)
EnableRawMode ==
    /\ pc = "enable_raw"
    /\ \E ok \in BOOLEAN :
         IF ok
         THEN /\ raw' = TRUE
              /\ pc' = "enter_alt"
              /\ result' = result
         ELSE /\ raw' = raw
              /\ pc' = "returned"
              /\ result' = "Crossterm"
    /\ UNCHANGED <<alt, entered, rxAlive, ppc, held, chan, readLog, recvLog,
                   wake, frames, comp, cs>>
    /\ UNCHANGED <<calls, drawn>>
    /\ UNCHANGED surfVars

\* execute!(output, EnterAlternateScreen)?  On failure `?` returns before
\* Self(output) is built: no BufferWrapper exists, so no Drop runs.
EnterAlternateScreen ==
    /\ pc = "enter_alt"
    /\ \E ok \in BOOLEAN :
         IF ok
         THEN /\ alt' = TRUE
              /\ pc' = "terminal_new"
              /\ result' = result
         ELSE /\ alt' = alt
              /\ pc' = "returned"
              /\ result' = "Crossterm"
    /\ UNCHANGED <<raw, entered, rxAlive, ppc, held, chan, readLog, recvLog,
                   wake, frames, comp, cs>>
    /\ UNCHANGED <<calls, drawn>>
    /\ UNCHANGED surfVars

\* tui::Terminal::new(backend)?  The backend owns the BufferWrapper; on failure
\* it is dropped, which runs BufferWrapper::drop before terminal() returns.
TerminalNew ==
    /\ pc = "terminal_new"
    /\ \E ok \in BOOLEAN :
         IF ok
         THEN /\ pc' = "events"
              /\ result' = result
         ELSE /\ pc' = "drop_leave"
              /\ result' = "Io"
    /\ UNCHANGED <<raw, alt, entered, rxAlive, ppc, held, chan, readLog, recvLog,
                   wake, frames, comp, cs>>
    /\ UNCHANGED <<calls, drawn>>
    /\ UNCHANGED surfVars

\* let events = events(); let ticker = tick(1s);  The producer thread starts.
SpawnEvents ==
    /\ pc = "events"
    /\ rxAlive' = TRUE
    /\ ppc' = "read"
    /\ entered' = TRUE
    /\ pc' = "render"
    /\ UNCHANGED <<result, raw, alt, held, chan, readLog, recvLog,
                   wake, frames, comp, cs>>
    /\ UNCHANGED <<calls, drawn>>
    /\ UNCHANGED surfVars

----
\* The loop of run().

\* A call of a Component method in progress: main.draw(area, ..) with the
\* full extent f.size(), main.key_event(..) or main.mouse_event(..).
DrawCall(t) == [thread |-> t, method |-> "draw", rect |-> "f.size()"]
HandlerCall(t, m) == [thread |-> t, method |-> m, rect |-> "-"]

\* run() is sequential: it takes its next step only when the Component
\* method it called has returned.
NoLoopCall == \A c \in calls : c.thread # "loop"

\* A plausible slip: a failed frame is remembered but the loop draws again
\* instead of leaving.
RenderRetriesOnFailure ==
    /\ pc = "render"
    /\ NoLoopCall
    /\ \E ok \in BOOLEAN :
         /\ calls' = calls \cup {DrawCall("loop")}
         /\ drawn' = IF drawn < 2 THEN drawn + 1 ELSE drawn
         /\ IF ok
            THEN /\ frames' = IF frames < MaxFrames THEN frames + 1 ELSE frames
                 /\ pc' = "select"
                 /\ result' = result
            ELSE /\ frames' = frames
                 /\ pc' = "render"
                 /\ result' = "Io"
    /\ UNCHANGED <<raw, alt, entered, rxAlive, ppc, held, chan, readLog, recvLog,
                   wake, comp, cs>>
    /\ UNCHANGED surfVars

\* terminal.0.draw(|f| f.render_widget(ComponentGlue(&mut main), f.size()))?
\* tui's Terminal::draw resizes, runs the closure (which calls main.draw over
\* f.size()) and flushes: a failure comes before or after the draw call.
Render ==
    /\ pc = "render"
    /\ NoLoopCall
    /\ \E ok \in BOOLEAN, drew \in BOOLEAN :
         /\ ok => drew
         /\ IF drew
            THEN /\ calls' = calls \cup {DrawCall("loop")}
                 /\ drawn' = IF drawn < 2 THEN drawn + 1 ELSE drawn
            ELSE /\ calls' = calls
                 /\ drawn' = drawn
         /\ IF ok
            THEN /\ frames' = IF frames < MaxFrames THEN frames + 1 ELSE frames
                 /\ pc' = "select"
                 /\ result' = result
            ELSE /\ frames' = frames
                 /\ pc' = "drop_rx"
                 /\ result' = "Io"
    /\ UNCHANGED <<raw, alt, entered, rxAlive, ppc, held, chan, readLog, recvLog,
                   wake, comp, cs>>
    /\ UNCHANGED surfVars

\* The Component method the loop thread called returns.  (The position pc is
\* where run() continues once the call has returned.)
ComponentReturn ==
    /\ \E c \in calls :
         /\ c.thread = "loop"
         /\ calls' = calls \ {c}
    /\ UNCHANGED <<pc, result, raw, alt, entered, rxAlive, ppc, held, chan,
                   readLog, recvLog, wake, frames, comp, cs, drawn>>
    /\ UNCHANGED surfVars

\* A plausible slip: the tick arm also drains the pending event.
LoopTickDrains ==
    /\ pc = "select"
    /\ NoLoopCall
    /\ wake' = [kind |-> "tick", ev |-> NoEvent, call |-> "none", handled |-> FALSE]
    /\ pc' = "render"
    /\ held' = NoEvent
    /\ ppc' = IF ppc = "send" THEN "read" ELSE ppc
    /\ UNCHANGED <<result, raw, alt, entered, rxAlive, chan, readLog, recvLog,
                   frames, comp, cs>>
    /\ drawn' = 0
    /\ calls' = calls
    /\ UNCHANGED surfVars

\* A plausible slip: after a tick the loop waits again without rendering.
LoopTickSkipsRender ==
    /\ pc = "select"
    /\ NoLoopCall
    /\ wake' = [kind |-> "tick", ev |-> NoEvent, call |-> "none", handled |-> FALSE]
    /\ pc' = "select"
    /\ drawn' = 0
    /\ UNCHANGED <<result, raw, alt, entered, rxAlive, ppc, held, chan, readLog,
                   recvLog, frames, comp, cs, calls>>
    /\ UNCHANGED surfVars

\* select! arm `recv(ticker) -> _ => {}`: the timer fired.
LoopTick ==
    /\ pc = "select"
    /\ NoLoopCall
    /\ wake' = [kind |-> "tick", ev |-> NoEvent, call |-> "none", handled |-> FALSE]
    /\ pc' = "render"
    /\ UNCHANGED <<result, raw, alt, entered, rxAlive, ppc, held, chan, readLog,
                   recvLog, frames, comp, cs>>
    /\ drawn' = 0
    /\ calls' = calls
    /\ UNCHANGED surfVars

\* select! arm `recv(events) -> Ok(e)`: a buffered message, or else the
\* rendezvous with the producer blocked in tx.send(event).
LoopRecvEvent ==
    /\ pc = "select"
    /\ NoLoopCall
    /\ rxAlive
    /\ chan # <<>> \/ ppc = "send"
    /\ LET e == IF chan # <<>> THEN Head(chan) ELSE held
           r == HandleComponentEvent(comp, cs, e)
       IN /\ IF chan # <<>>
             THEN /\ chan' = Tail(chan)
                  /\ UNCHANGED <<held, ppc>>
             ELSE /\ held' = NoEvent
                  /\ ppc' = "read"
                  /\ chan' = chan
          /\ recvLog' = Append(recvLog, e)
          /\ cs' = r.state
          /\ calls' = IF r.call = "none"
                      THEN calls
                      ELSE calls \cup {HandlerCall("loop", r.call)}
          /\ wake' = [kind |-> "event", ev |-> e, call |-> r.call,
                      handled |-> r.handled]
          /\ IF ShouldQuit(r.handled, e)
             THEN /\ pc' = "drop_rx"
                  /\ result' = "Ok"
             ELSE /\ pc' = "render"
                  /\ result' = result
    /\ UNCHANGED <<raw, alt, entered, rxAlive, readLog, frames, comp>>
    /\ drawn' = 0
    /\ UNCHANGED surfVars

\* A plausible slip: a closed channel is treated like a tick.
LoopRecvClosedIgnored ==
    /\ pc = "select"
    /\ NoLoopCall
    /\ rxAlive
    /\ chan = <<>>
    /\ ppc = "done"
    /\ wake' = [kind |-> "closed", ev |-> NoEvent, call |-> "none", handled |-> FALSE]
    /\ pc' = "render"
    /\ UNCHANGED <<result, raw, alt, entered, rxAlive, ppc, held, chan, readLog,
                   recvLog, frames, comp, cs>>
    /\ UNCHANGED <<calls, drawn>>
    /\ UNCHANGED surfVars

\* select! arm `recv(events) -> Err(e)`: every sender is gone and nothing is
\* buffered; `break 'main Err(e.into())`.
LoopRecvClosed ==
    /\ pc = "select"
    /\ NoLoopCall
    /\ rxAlive
    /\ chan = <<>>
    /\ ppc = "done"
    /\ wake' = [kind |-> "closed", ev |-> NoEvent, call |-> "none", handled |-> FALSE]
    /\ pc' = "drop_rx"
    /\ result' = "Receive"
    /\ UNCHANGED <<raw, alt, entered, rxAlive, ppc, held, chan, readLog,
                   recvLog, frames, comp, cs>>
    /\ UNCHANGED <<calls, drawn>>
    /\ UNCHANGED surfVars

----
\* Teardown: the locals of run() are dropped in reverse order of declaration
\* (ticker, events, terminal); dropping terminal runs BufferWrapper::drop.

\* A plausible slip: the receiver is kept alive (leaked) when run() returns.
DropRxLeaked ==
    /\ pc = "drop_rx"
    /\ NoLoopCall
    /\ pc' = "drop_leave"
    /\ UNCHANGED <<result, raw, alt, entered, rxAlive, chan, ppc, held, readLog,
                   recvLog, wake, frames, comp, cs>>
    /\ UNCHANGED <<calls, drawn>>
    /\ UNCHANGED surfVars

DropRx ==
    /\ pc = "drop_rx"
    /\ NoLoopCall
    /\ rxAlive' = FALSE
    /\ chan' = <<>>
    /\ pc' = "drop_leave"
    /\ UNCHANGED <<result, raw, alt, entered, ppc, held, readLog, recvLog,
                   wake, frames, comp, cs>>
    /\ UNCHANGED <<calls, drawn>>
    /\ UNCHANGED surfVars

\* execute!(self.0, LeaveAlternateScreen).expect("switch to main screen")
DropLeave ==
    /\ pc = "drop_leave"
    /\ \E ok \in BOOLEAN :
         IF ok
         THEN /\ alt' = FALSE
              /\ pc' = "drop_raw"
         ELSE /\ alt' = alt
              /\ pc' = "panicked"
    /\ UNCHANGED <<result, raw, entered, rxAlive, ppc, held, chan, readLog, recvLog,
                   wake, frames, comp, cs>>
    /\ UNCHANGED <<calls, drawn>>
    /\ UNCHANGED surfVars

\* A plausible slip: drop leaves the alternate screen and forgets raw mode.
DropRawForgotten ==
    /\ pc = "drop_raw"
    /\ pc' = "returned"
    /\ UNCHANGED <<result, raw, alt, entered, rxAlive, ppc, held, chan, readLog,
                   recvLog, wake, frames, comp, cs>>
    /\ UNCHANGED <<calls, drawn>>
    /\ UNCHANGED surfVars

\* crossterm::terminal::disable_raw_mode().expect("disable raw mode")
DropRaw ==
    /\ pc = "drop_raw"
    /\ \E ok \in BOOLEAN :
         IF ok
         THEN /\ raw' = FALSE
              /\ pc' = "returned"
         ELSE /\ raw' = raw
              /\ pc' = "panicked"
    /\ UNCHANGED <<result, alt, entered, rxAlive, ppc, held, chan, readLog, recvLog,
                   wake, frames, comp, cs>>
    /\ UNCHANGED <<calls, drawn>>
    /\ UNCHANGED surfVars

----
\* The producer thread of events():
\*   while let Ok(event) = crossterm::event::read() { tx.send(event).ok(); }

\* A plausible slip: the producer thread dispatches the key it read to the
\* Component itself instead of only handing it to the loop.
ProducerReadDispatches ==
    /\ ppc = "read"
    /\ Len(readLog) < MaxReads
    /\ \E e \in EnvEvents :
         /\ held' = e
         /\ readLog' = Append(readLog, e)
         /\ calls' = IF e.tag = "Key"
                     THEN calls \cup {HandlerCall("producer", "key_event")}
                     ELSE calls
    /\ ppc' = "send"
    /\ UNCHANGED <<pc, result, raw, alt, entered, rxAlive, chan, recvLog,
                   wake, frames, comp, cs, drawn>>
    /\ UNCHANGED surfVars

\* read() returned Ok(event).
ProducerRead ==
    /\ ppc = "read"
    /\ Len(readLog) < MaxReads
    /\ \E e \in EnvEvents :
         /\ held' = e
         /\ readLog' = Append(readLog, e)
    /\ ppc' = "send"
    /\ UNCHANGED <<pc, result, raw, alt, entered, rxAlive, chan, recvLog,
                   wake, frames, comp, cs>>
    /\ UNCHANGED <<calls, drawn>>
    /\ UNCHANGED surfVars

\* read() returned Err: the loop ends, the closure returns and tx is dropped.
ProducerReadFails ==
    /\ ppc = "read"
    /\ ppc' = "done"
    /\ UNCHANGED <<pc, result, raw, alt, entered, rxAlive, held, chan, readLog,
                   recvLog, wake, frames, comp, cs>>
    /\ UNCHANGED <<calls, drawn>>
    /\ UNCHANGED surfVars

\* A plausible slip: the send waits for a receiver even when there is none left.
ProducerSendNeedsReceiver ==
    /\ ppc = "send"
    /\ rxAlive
    /\ SendCanBuffer(chan)
    /\ chan' = Append(chan, held)
    /\ held' = NoEvent
    /\ ppc' = "read"
    /\ UNCHANGED <<pc, result, raw, alt, entered, rxAlive, readLog, recvLog,
                   wake, frames, comp, cs>>
    /\ UNCHANGED <<calls, drawn>>
    /\ UNCHANGED surfVars

\* tx.send(event).ok() completing without a receiver taking the event in the
\* same step: the message is buffered when the channel has room (never, with
\* capacity 0), or the send fails because the receiver is gone and the error
\* is ignored.
ProducerSend ==
    /\ ppc = "send"
    /\ IF rxAlive
       THEN /\ SendCanBuffer(chan)
            /\ chan' = Append(chan, held)
       ELSE chan' = chan
    /\ held' = NoEvent
    /\ ppc' = "read"
    /\ UNCHANGED <<pc, result, raw, alt, entered, rxAlive, readLog, recvLog,
                   wake, frames, comp, cs>>
    /\ UNCHANGED <<calls, drawn>>
    /\ UNCHANGED surfVars

Next ==
    \/ EnableRawMode
    \/ EnterAlternateScreen
    \/ TerminalNew
    \/ SpawnEvents
    \/ Render
    \/ ComponentReturn
    \/ LoopTick
    \/ LoopRecvEvent
    \/ LoopRecvClosed
    \/ DropRx
    \/ DropLeave
    \/ DropRaw
    \/ ProducerRead
    \/ ProducerReadFails
    \/ ProducerSend

Spec == Init /\ [][Next]_vars

\* A select! that is not fair to its arms: only the timer is sure to be taken.
SelectFairnessTimerOnly == WF_vars(LoopTick)

\* select! picks at random among the arms that are ready: an arm that is ready
\* again and again is taken in the end, though the timer is ready every time.
SelectFairness == SF_vars(LoopRecvEvent) /\ SF_vars(LoopRecvClosed)

\* The loop thread and the producer thread are both scheduled: a step either
\* can take for good is taken.  A read from the environment may block for ever.
ThreadFairness ==
    /\ WF_vars(Render)
    /\ WF_vars(ComponentReturn)
    /\ WF_vars(DropRx)
    /\ WF_vars(DropLeave)
    /\ WF_vars(DropRaw)
    /\ WF_vars(ProducerSend)

FairSpec == Init /\ [][Next]_vars /\ ThreadFairness /\ SelectFairness

----
\* The drawing surface: BoundedBuffer over a tui Buffer, BoundedCell.

U16Max == 65535

\* u16 arithmetic without overflow checks: the value modulo 2^16.
U16(v) == v % (U16Max + 1)

\* tui Rect::right() and Rect::bottom(): origin plus extent, saturating.
Right(a) == IF a.x + a.width > U16Max THEN U16Max ELSE a.x + a.width
Bottom(a) == IF a.y + a.height > U16Max THEN U16Max ELSE a.y + a.height

Rects ==
    [x : 0..MaxOrigin, y : 0..MaxOrigin, width : 0..MaxSide, height : 0..MaxSide]

\* The surface of five columns and one row the clipping examples are given on.
ExampleRect == [x |-> 0, y |-> 0, width |-> 5, height |-> 1]

\* The coordinates tried: the last column of ExampleRect and the one past it,
\* and up to the largest right()/bottom(), and u16::MAX.
Coords ==
    (0..(MaxOrigin + MaxSide)) \cup {ExampleRect.width - 1, ExampleRect.width, U16Max}

Glyphs == {"A", "b"}

\* Buffer::empty(area): width * height blank cells.
EmptyCells(a) == [i \in 1..(a.width * a.height) |-> " "]

NullHandle == [kind |-> "null", idx |-> 0]

\* self.0.get_mut(x, y) of the tui Buffer, which takes absolute coordinates:
\* index_of debug-asserts that (x, y) lies in the area and computes
\* (y - area.y) * area.width + (x - area.x) in u16; the content vector is then
\* indexed (0-based idx), which panics when idx is out of range.
BufferGetMut(a, n, x, y, chk) ==
    LET inside == x >= a.x /\ x < Right(a) /\ y >= a.y /\ y < Bottom(a)
        idx == U16(U16(U16(y - a.y) * a.width) + U16(x - a.x))
    IN IF chk /\ ~inside
       THEN [kind |-> "panic", idx |-> 0]
       ELSE IF idx < n
            THEN [kind |-> "cell", idx |-> idx]
            ELSE [kind |-> "panic", idx |-> 0]

\* BoundedBuffer::get_mut:
\* (x < area.right() && y < area.bottom()).then(|| self.0.get_mut(x, y))
GetMut(a, n, x, y, chk) ==
    IF x < Right(a) /\ y < Bottom(a)
    THEN BufferGetMut(a, n, x, y, chk)
    ELSE NullHandle

\* BoundedCell::set_char: writes the glyph when the handle holds a cell.
SetChar(h, ch, content) ==
    IF h.kind = "cell"
    THEN [content EXCEPT ![h.idx + 1] = ch]
    ELSE content

NoOp == [kind |-> "none", n |-> 0, x |-> 0, y |-> 0, ch |-> " ", outcome |-> "none"]

\* The loop's variables while only the surface is exercised.
LoopIdle ==
    /\ pc = "enable_raw"
    /\ result = "none"
    /\ raw = FALSE
    /\ alt = FALSE
    /\ entered = FALSE
    /\ rxAlive = FALSE
    /\ ppc = "unspawned"
    /\ held = NoEvent
    /\ chan = <<>>
    /\ readLog = <<>>
    /\ recvLog = <<>>
    /\ wake = NoWake
    /\ frames = 0
    /\ comp = "Default"
    /\ cs = InitState
    /\ calls = {}
    /\ drawn = 0

SurfaceInit ==
    /\ area \in Rects \cup {ExampleRect}
    /\ cells = EmptyCells(area)
    /\ before = cells
    /\ op = NoOp
    /\ prevFrame = <<>>
    /\ checked \in BOOLEAN
    /\ LoopIdle

\* buf.get_mut(x, y).set_char(ch) for some coordinates and glyph.  A panic
\* ends the draw: nothing is applied after it.
SurfaceSetChar ==
    /\ op.outcome # "panic"
    /\ op.n < MaxOps
    /\ \E x \in Coords, y \in Coords, ch \in Glyphs :
         LET h == GetMut(area, Len(cells), x, y, checked)
         IN /\ before' = cells
            /\ cells' = SetChar(h, ch, cells)
            /\ op' = [kind |-> "set", n |-> op.n + 1, x |-> x, y |-> y,
                      ch |-> ch, outcome |-> h.kind]
    /\ UNCHANGED <<area, prevFrame, checked>>
    /\ UNCHANGED loopVars

\* i as i32 + offset in a build without overflow checks: the sum wraps around.
\* i is never negative.
I32Add(i, offset) ==
    IF offset > I32Max - i
    THEN I32Min + ((i - 1) - (I32Max - offset))
    ELSE i + offset

\* The cells tui's Block::render touches for Borders::ALL, in order, as
\* <<x, y, symbol>> in absolute coordinates ("" restyles without a symbol):
\* nothing for an empty area; else set_style over the area, the left, top,
\* right and bottom sides, then the four corners.
BlockCells(r) ==
    IF r.width * r.height = 0
    THEN <<>>
    ELSE [k \in 1..(r.width * r.height) |->
             <<r.x + ((k - 1) % r.width), r.y + ((k - 1) \div r.width), "">>]
         \o [i \in 1..r.height |-> <<r.x, r.y + i - 1, "v">>]
         \o [i \in 1..r.width |-> <<r.x + i - 1, r.y, "h">>]
         \o [i \in 1..r.height |-> <<Right(r) - 1, r.y + i - 1, "v">>]
         \o [i \in 1..r.width |-> <<r.x + i - 1, Bottom(r) - 1, "h">>]
         \o << <<r.x, r.y, "tl">>, <<Right(r) - 1, r.y, "tr">>,
               <<r.x, Bottom(r) - 1, "bl">>, <<Right(r) - 1, Bottom(r) - 1, "br">> >>

\* Block::render writes with buf.get_mut(x, y) of the tui Buffer itself, from
\* the i-th touched cell on.  direct counts the cells looked up without the
\* bounds check of BoundedBuffer.
RECURSIVE BlockRender(_, _, _, _, _)
BlockRender(touched, a, content, chk, i) ==
    IF i > Len(touched)
    THEN [cells |-> content, outcome |-> "ok", direct |-> Len(touched)]
    ELSE LET t == touched[i]
             h == BufferGetMut(a, Len(content), t[1], t[2], chk)
         IN IF h.kind = "panic"
            THEN [cells |-> content, outcome |-> "panic", direct |-> i]
            ELSE BlockRender(touched, a,
                             IF t[3] = "" THEN content ELSE SetChar(h, t[3], content),
                             chk, i + 1)

\* components::Frame::draw: self.0.clone().render(area, buf.0).
FrameDraw(r, a, content, chk) == BlockRender(BlockCells(r), a, content, chk, 1)

\* "hello world".chars() with to_ascii_lowercase and to_ascii_uppercase.
HelloLower == <<"h", "e", "l", "l", "o", " ", "w", "o", "r", "l", "d">>
HelloUpper == <<"H", "E", "L", "L", "O", " ", "W", "O", "R", "L", "D">>

\* The loop of App::draw from the i-th character (0-based) on:
\* buf.get_mut((i as i32 + offset.0) as u16, offset.1 as u16).set_char(c).
\* With overflow checks the addition panics instead of wrapping.
RECURSIVE AppText(_, _, _, _, _)
AppText(s, a, res, chk, i) ==
    IF i >= Len(HelloLower)
    THEN res
    ELSE IF chk /\ s.offset[1] > I32Max - i
         THEN [res EXCEPT !.outcome = "panic"]
         ELSE LET x == U16(I32Add(i, s.offset[1]))
                  y == U16(s.offset[2])
                  h == GetMut(a, Len(res.cells), x, y, chk)
                  c == IF s.uppercase THEN HelloUpper[i + 1] ELSE HelloLower[i + 1]
              IN IF h.kind = "panic"
                 THEN [res EXCEPT !.outcome = "panic"]
                 ELSE AppText(s, a, [res EXCEPT !.cells = SetChar(h, c, res.cells)],
                              chk, i + 1)

\* App::draw: self.frame.draw(area, buf), then the text.
AppDraw(s, r, a, content, chk) ==
    LET f == FrameDraw(r, a, content, chk)
    IN IF f.outcome = "panic" THEN f ELSE AppText(s, a, f, chk, 0)

\* Component::draw(&self, area, buf) of the components drawn on the surface.
Draw(c, s, r, a, content, chk) ==
    IF c = "Frame" THEN FrameDraw(r, a, content, chk) ELSE AppDraw(s, r, a, content, chk)

\* The offsets tried: around zero, and close enough to i32::MAX for the
\* addition of a character index to overflow.
Offsets == {-1, 0, 1, I32Max - 5}

AppStates ==
    {[InitState EXCEPT !.uppercase = u, !.offset = <<ox, oy>>] :
        u \in BOOLEAN, ox \in Offsets, oy \in Offsets}

StateAfterDrawToggled(s) == [s EXCEPT !.uppercase = ~@]

\* draw takes &self: the component's state after the call is the state drawn.
StateAfterDraw(s) == s

\* What is drawn: a Frame with any Rect, as a parent may hand it one, or the
\* App with the Rect run() hands the root, f.size(), the buffer's area.
DrawInputs(a) ==
    {[c |-> "Frame", s |-> InitState, r |-> r] : r \in Rects \cup {a}}
    \cup {[c |-> "App", s |-> s, r |-> a] : s \in AppStates}

\* A frame: draw on the blank buffer Terminal::draw provides.
SurfaceDraw ==
    /\ op.kind = "none"
    /\ \E d \in DrawInputs(area) :
         LET res == Draw(d.c, d.s, d.r, area, cells, checked)
         IN /\ comp' = d.c
            /\ cs' = StateAfterDraw(d.s)
            /\ before' = cells
            /\ cells' = res.cells
            /\ op' = [kind |-> "draw", n |-> 1, rect |-> d.r, state |-> d.s,
                      outcome |-> res.outcome, direct |-> res.direct]
    /\ UNCHANGED <<area, prevFrame, checked>>
    /\ UNCHANGED <<pc, result, raw, alt, entered, rxAlive, ppc, held, chan,
                   readLog, recvLog, wake, frames, calls, drawn>>

\* The next frame with no input in between: the same component, with the
\* state the last draw left, draws with the same Rect on a blank buffer again.
SurfaceRedraw ==
    /\ op.kind = "draw"
    /\ op.n = 1
    /\ op.outcome = "ok"
    /\ LET res == Draw(comp, cs, op.rect, area, EmptyCells(area), checked)
       IN /\ before' = EmptyCells(area)
          /\ prevFrame' = cells
          /\ cells' = res.cells
          /\ op' = [op EXCEPT !.n = 2, !.state = cs, !.outcome = res.outcome,
                                !.direct = res.direct]
          /\ cs' = StateAfterDraw(cs)
    /\ UNCHANGED <<area, checked>>
    /\ UNCHANGED <<pc, result, raw, alt, entered, rxAlive, ppc, held, chan,
                   readLog, recvLog, wake, frames, comp, calls, drawn>>

SurfaceNext ==
    \/ SurfaceSetChar
    \/ SurfaceDraw
    \/ SurfaceRedraw

SurfaceSpec == SurfaceInit /\ [][SurfaceNext]_vars

----
\* Vocabulary of the properties.

\* A step of the loop thread that resolves the select!.
SelectStep == pc = "select" /\ pc' # "select"

\* The positions of run() after the loop was left (TERMINATED).
Teardown == {"drop_rx", "drop_leave", "drop_raw", "returned", "panicked"}

IsEsc(e) == e.tag = "Key" /\ e.code = "Esc"
IsPlainEsc(e) == IsEsc(e) /\ e.mods = "NONE"

\* Is sequence p a prefix of sequence q.
IsPrefix(p, q) == Len(p) <= Len(q) /\ p = SubSeq(q, 1, Len(p))

----
\* C1: whenever run() has returned after the loop was entered, raw mode is
\* disabled and the alternate screen is left.
C1_RestoredOnReturn == (pc = "returned" /\ entered) => (~raw /\ ~alt)

\* run() returned a render failure after at least one frame.
C1_Witness == pc = "returned" /\ entered /\ result = "Io" /\ frames > 0

\* C2: whenever run() has returned an error from setup (the loop was never
\* entered), nothing of the interactive mode is still held.
C2_SetupFailureReleased ==
    (pc = "returned" /\ ~entered /\ result # "none") => (~raw /\ ~alt)

\* C3 as stated: a received event leaves the loop exactly when it is an
\* unhandled Escape with no modifiers; every other event goes back to render.
C3_OnlyPlainEscQuits ==
    [][(SelectStep /\ wake'.kind = "event") =>
          /\ (pc' = "drop_rx") <=> (IsPlainEsc(wake'.ev) /\ ~wake'.handled)
          /\ (pc' # "drop_rx") => (pc' = "render" /\ result' = result)]_vars

\* C3 amended: a received event leaves the loop exactly when it is an
\* unhandled Escape key, whatever its modifiers; every other event (a
\* non-Escape key, a mouse event, a resize, a handled event) is discarded and
\* the loop goes back to render.
C3_OnlyUnhandledEscQuits ==
    [][(SelectStep /\ wake'.kind = "event") =>
          /\ (pc' = "drop_rx") <=> (IsEsc(wake'.ev) /\ ~wake'.handled)
          /\ (pc' = "drop_rx") => (result' = "Ok")
          /\ (pc' # "drop_rx") => (pc' = "render" /\ result' = result)]_vars

\* An unhandled Escape carrying CONTROL has ended the loop.
C3_Witness ==
    /\ wake.kind = "event"
    /\ wake.ev = Key("Esc", "CONTROL")
    /\ ~wake.handled
    /\ pc = "drop_rx"
    /\ result = "Ok"

\* C4: once an Escape with no modifiers was delivered and key_event returned
\* false, the loop has been left in that iteration (no render, no reception
\* after it: it stays the last wake-up and the last received event) and the
\* result of run() is Ok(()).
C4_PlainEscQuitsCleanly ==
    (wake.kind = "event" /\ IsPlainEsc(wake.ev) /\ ~wake.handled) =>
        /\ pc \in Teardown
        /\ result = "Ok"
        /\ wake.call = "key_event"
        /\ recvLog # <<>> /\ recvLog[Len(recvLog)] = wake.ev

\* run() returned Ok(()) after an unhandled plain Escape.
C4_Witness ==
    /\ wake.kind = "event"
    /\ IsPlainEsc(wake.ev)
    /\ ~wake.handled
    /\ pc = "returned"
    /\ result = "Ok"

\* C5: a delivery the root Component reports handled never ends the loop: the
\* next step is a render, even for Escape.  For the Component that consumes
\* Char('a') only, the first event Key('a') leaves the loop running (flag
\* set) and a following Key(Esc) ends it with Ok(()).
C5_HandledNeverQuits ==
    [][/\ (SelectStep /\ wake'.kind = "event" /\ wake'.handled) =>
             (pc' = "render" /\ result' = result)
       /\ (SelectStep /\ comp = "FlagA" /\ recvLog = <<>>
             /\ recvLog' = <<Key("a", "NONE")>>) =>
             (pc' = "render" /\ result' = "none" /\ cs'.flag)
       /\ (SelectStep /\ comp = "FlagA" /\ recvLog = <<Key("a", "NONE")>>
             /\ recvLog' = <<Key("a", "NONE"), Key("Esc", "NONE")>>) =>
             (pc' = "drop_rx" /\ result' = "Ok")]_vars

\* A Component consumed an Escape with no modifiers and the loop renders again.
C5_Witness ==
    /\ wake.kind = "event"
    /\ IsPlainEsc(wake.ev)
    /\ wake.handled
    /\ pc = "render"

\* The concrete scenario of C5 ran to its end.
C5_ExampleReached ==
    /\ comp = "FlagA"
    /\ recvLog = <<Key("a", "NONE"), Key("Esc", "NONE")>>
    /\ cs.flag
    /\ pc = "returned"
    /\ result = "Ok"

\* C6: the select observes the closed channel only after the producer is gone;
\* that wake-up calls no Component handler, changes no Component state,
\* receives no event, ends the loop with Error::Receive, and when run() has
\* returned that error the terminal mode is restored.
C6_ClosedChannelFails ==
    /\ [][(SelectStep /\ wake'.kind = "closed") =>
             /\ ppc = "done"
             /\ pc' = "drop_rx"
             /\ result' = "Receive"
             /\ wake'.call = "none"
             /\ cs' = cs
             /\ recvLog' = recvLog]_vars
    /\ []((pc = "returned" /\ result = "Receive") =>
             (wake.kind = "closed" /\ ~raw /\ ~alt))

\* run() returned Error::Receive with the terminal restored.
C6_Witness ==
    /\ wake.kind = "closed"
    /\ pc = "returned"
    /\ result = "Receive"
    /\ ~raw
    /\ ~alt

\* C9: a select resolved by the timer calls no handler, keeps the loop
\* running with a render as the next step, and leaves the Component state,
\* the pending event, the producer and the result untouched.
C9_TickOnlyRedraws ==
    [][(SelectStep /\ wake'.kind = "tick") =>
          /\ pc' = "render"
          /\ wake'.call = "none"
          /\ UNCHANGED <<cs, held, ppc, chan, recvLog, readLog, result, rxAlive>>]_vars

\* The timer won the select while the producer had an event pending.
C9_Witness == wake.kind = "tick" /\ ppc = "send" /\ pc = "render"

\* C10: the channel never buffers a message and the only event in the
\* hand-off is the one the producer holds in its blocked send; while the
\* receiver exists, the received events are a prefix of the events read, at
\* most one event read is not yet received (the held one), and the producer
\* is back at read() only when everything it read was received.
C10_Rendezvous ==
    /\ chan = <<>>
    /\ (held # NoEvent) <=> (ppc = "send")
    /\ rxAlive =>
        /\ IsPrefix(recvLog, readLog)
        /\ Len(readLog) - Len(recvLog) <= 1
        /\ (ppc = "send") => (Len(readLog) = Len(recvLog) + 1
                              /\ held = readLog[Len(readLog)])
        /\ (ppc # "send") => (Len(readLog) = Len(recvLog))

\* Two events were received in order, the timer then won a select while the
\* third was pending.
C10_Witness ==
    /\ rxAlive
    /\ Len(recvLog) = 2
    /\ recvLog[1] # recvLog[2]
    /\ ppc = "send"
    /\ wake.kind = "tick"

\* C7: a set_char through get_mut(x, y) with x >= Rect.width or
\* y >= Rect.height, coordinates relative to the Rect, gets the null handle,
\* changes no Cell and does not panic, wherever the Rect's origin is.
C7_OutsideIsNoOp ==
    (op.kind = "set" /\ (op.x >= area.width \/ op.y >= area.height)) =>
        (op.outcome = "null" /\ cells = before)

\* C8: a set_char through get_mut(x, y) with x < Rect.width and
\* y < Rect.height changes exactly the Cell at local coordinate (x, y) of the
\* Rect, row-major index y * width + x, and does not panic.
C8_InsideWritesLocalCell ==
    (op.kind = "set" /\ op.x < area.width /\ op.y < area.height) =>
        /\ op.outcome = "cell"
        /\ cells = [before EXCEPT ![op.y * area.width + op.x + 1] = op.ch]

----
\* C11: at every moment at most one call of a Component method (draw,
\* key_event, mouse_event) is in progress, and it was made by the thread
\* running run(), never by the producer thread.
C11_NoConcurrentCalls ==
    /\ Cardinality(calls) <= 1
    /\ \A c \in calls : c.thread = "loop"

\* key_event is in progress on the loop thread while the producer thread has
\* already read the next event.
C11_Witness ==
    /\ calls = {HandlerCall("loop", "key_event")}
    /\ ppc = "send"
    /\ Len(readLog) = 2

\* C12: once a frame failed (the loop was entered and the result is the Io
\* error) the loop has been left; from then on the result stays that error and
\* there is no further wake-up, reception, draw or handler call.
C12_RenderFailureEndsSession ==
    /\ []((entered /\ result = "Io") => pc \in Teardown)
    /\ [][(entered /\ result = "Io") =>
             /\ result' = "Io"
             /\ wake' = wake
             /\ recvLog' = recvLog
             /\ cs' = cs
             /\ frames' = frames
             /\ drawn' = drawn
             /\ calls' \subseteq calls]_vars

\* run() returned the render error while an event the producer had read was
\* still waiting to be received.
C12_Witness ==
    /\ pc = "returned"
    /\ entered
    /\ result = "Io"
    /\ ppc = "send"
    /\ Len(readLog) = Len(recvLog) + 1

\* C13: whenever the loop waits in select!, exactly one draw of the root
\* Component, over the full extent f.size(), was begun since the previous
\* wake-up (never more than one); every resolution of the select! is exactly
\* one wake-up (a tick or a closed channel, receiving nothing, or one event);
\* and no event is received before the first frame.
C13_OneRenderPerWakeUp ==
    /\ [](/\ (pc = "select") => (drawn = 1)
          /\ drawn <= 1
          /\ \A c \in calls : (c.method = "draw") => (c.rect = "f.size()")
          /\ (recvLog # <<>>) => (frames > 0))
    /\ [][SelectStep =>
             \/ wake'.kind \in {"tick", "closed"} /\ recvLog' = recvLog
             \/ /\ wake'.kind = "event"
                /\ recvLog' = Append(recvLog, wake'.ev)]_vars

\* The loop waits for the third time: one frame was drawn since the second
\* wake-up, which was an event following a tick.
C13_Witness ==
    /\ pc = "select"
    /\ NoLoopCall
    /\ drawn = 1
    /\ wake.kind = "event"
    /\ Len(recvLog) = 2

\* C14: a received Key event calls key_event and nothing else, a Mouse event
\* calls mouse_event and nothing else, a Resize event calls no handler, is
\* unhandled whatever the Component, leaves its state alone and is followed
\* by a render.
C14_DispatchByTag ==
    /\ []((wake.kind = "event") =>
             /\ (wake.ev.tag = "Key") => (wake.call = "key_event")
             /\ (wake.ev.tag = "Mouse") => (wake.call = "mouse_event")
             /\ (wake.ev.tag = "Resize") => (wake.call = "none" /\ ~wake.handled))
    /\ [][(SelectStep /\ wake'.kind = "event") =>
             /\ calls' = IF wake'.call = "none"
                         THEN calls
                         ELSE calls \cup {HandlerCall("loop", wake'.call)}
             /\ (wake'.ev.tag = "Resize") =>
                    (pc' = "render" /\ cs' = cs /\ result' = result)]_vars

\* A Resize was delivered to the Component that consumes everything, and the
\* loop renders again.
C14_Witness ==
    /\ comp = "Greedy"
    /\ wake.kind = "event"
    /\ wake.ev = ResizeEv
    /\ ~wake.handled
    /\ pc = "render"

\* C15 as stated: after the loop was left it stays left, receives no event,
\* begins no Component call, and the producer reads no further event.
C15_NothingReadAfterExit ==
    [][(pc \in Teardown) =>
          /\ pc' \in Teardown
          /\ recvLog' = recvLog
          /\ calls' \subseteq calls
          /\ readLog' = readLog]_vars

\* C15 amended: after the loop was left it stays left, receives no event,
\* resolves no select! and begins no Component call, and the Receiver is
\* dropped before the terminal is restored; the producer is not stopped (it
\* may go on reading), but nothing it reads is received any more.
C15_TerminatedIsTerminal ==
    /\ [][(pc \in Teardown) =>
             /\ pc' \in Teardown
             /\ recvLog' = recvLog
             /\ wake' = wake
             /\ cs' = cs
             /\ calls' \subseteq calls]_vars
    /\ []((entered /\ pc \in {"drop_leave", "drop_raw", "returned", "panicked"})
             => ~rxAlive)

\* run() has returned and the producer has since read two events that were
\* never received.
C15_Witness ==
    /\ pc = "returned"
    /\ entered
    /\ ~rxAlive
    /\ Len(readLog) = Len(recvLog) + 2

----
\* C16: during a draw every cell a component writes is looked up through the
\* bounds-checked get_mut of the surface, never directly in the underlying
\* buffer, so that a draw with any Rect neither fails nor writes outside.
C16_AllWritesBounded ==
    op.kind = "draw" => (op.direct = 0 /\ op.outcome = "ok")

\* C17: coordinates cast from i32 to u16 never crash a draw.  On a surface five
\* wide and one high a write at x = 4 changes that cell and a write at x = 5 or
\* at 65535 (-1 after the cast) changes nothing; and the App, drawn by run()
\* on the whole buffer at any offset the arrow keys reach, does not fail and
\* leaves the buffer its size.
C17_CastOffsetsClipped ==
    /\ (op.kind = "set" /\ area = ExampleRect) =>
           /\ op.outcome # "panic"
           /\ (op.x = ExampleRect.width - 1 /\ op.y = 0) =>
                  cells = [before EXCEPT ![ExampleRect.width] = op.ch]
           /\ op.x \in {ExampleRect.width, U16Max} =>
                  (op.outcome = "null" /\ cells = before)
    /\ (op.kind = "draw" /\ comp = "App" /\ area.x = 0 /\ area.y = 0) =>
           (op.outcome = "ok" /\ Len(cells) = Len(before))

----
\* The loop is RUNNING: between two passes of `loop { draw; select! }`.
Running == pc \in {"render", "select"}

\* C19: while the loop is running, an event the producer holds in the
\* hand-off is received in the end, as the n-th event, and a closed channel is
\* observed in the end, unless a failed draw ends the session first; so a
\* plain Escape the component does not handle, once read, ends the session.
C19_DeliveryLive ==
    /\ \A n \in 1..MaxReads :
           (Running /\ ppc = "send" /\ Len(readLog) = n)
               ~> (\/ Len(recvLog) >= n /\ recvLog[n] = readLog[n]
                   \/ result = "Io")
    /\ (Running /\ ppc = "done") ~> (result \in {"Receive", "Io"})
    /\ (/\ Running
        /\ ppc = "send"
        /\ IsPlainEsc(held)
        /\ ~HandleComponentEvent(comp, cs, held).handled)
           ~> (pc \in Teardown /\ result \in {"Ok", "Io"})

\* Two events were handed over, the second a plain Escape that ended the
\* session, with frames drawn in between.
C19_Witness ==
    /\ pc = "returned"
    /\ result = "Ok"
    /\ Len(recvLog) >= 2
    /\ recvLog = readLog
    /\ IsPlainEsc(recvLog[Len(recvLog)])
    /\ frames >= 1

\* C20: once the receiving end is dropped, a send of the producer, one that
\* was already waiting included, completes: it fails, the event is discarded
\* and received by nobody, and the producer reads again; once a read has
\* failed the producer has stopped for good.
C20_AbandonedNotBlocked ==
    /\ (~rxAlive /\ ppc = "send") ~> (ppc # "send")
    /\ [][(~rxAlive /\ ppc = "send" /\ ppc' # ppc) =>
             /\ ppc' = "read"
             /\ held' = NoEvent
             /\ chan' = chan
             /\ recvLog' = recvLog
             /\ pc' = pc]_vars
    /\ [][ppc = "done" => ppc' = "done"]_vars

\* run() has returned and the producer, having read an event nobody received,
\* is back at reading.
C20_Witness ==
    /\ pc = "returned"
    /\ ~rxAlive
    /\ ppc = "read"
    /\ held = NoEvent
    /\ Len(readLog) > Len(recvLog)

====
